---- MODULE Spec2Model ----
(***************************************************************************)
(* Transcript viewer: segment composition (segment-composer.ts), word      *)
(* location (word-index.ts) and the playback synchronizer hook             *)
(* (use-transcript-viewer.ts).                                             *)
(*                                                                         *)
(* Times are integers in units of 0.1 s (0.6 s is 6).  The code only       *)
(* copies and compares times, it never does arithmetic on them.            *)
(* A text is the sequence of its characters, each a one-character string.  *)
(* Every handler runs to completion and React commits the state it set,    *)
(* re-rendering and re-binding handleTimeUpdateRef, before the next one.   *)
(* SpecSwitch alone follows an alignment switch through its render, its    *)
(* effects and the render the effects ask for.                             *)
(* Array indices are 1-based here; segmentIndex, wordIndex and             *)
(* currentWordIndex keep the 0-based values of the code.                   *)
(***************************************************************************)
EXTENDS Integers, Sequences, FiniteSets, TLC

VARIABLES
    alignment,        \* prop: [characters, starts, ends]
    hideAudioTags,    \* prop
    segments,         \* useMemo result of composeSegments
    words,            \* useMemo result of composeSegments
    currentWordIndex, \* useState
    isPlaying,        \* useState
    isScrubbing,      \* useState
    duration,         \* useState
    currentTime,      \* useState
    rafRef,           \* rafRef.current: NoRaf or the id of a frame request
    rafScheduled,     \* ids of the animation frame callbacks still to fire
    audioRef,         \* audioRef.current: "null" or "audio"
    audio,            \* the media element: [paused, currentTime, duration]
    listeners,        \* handler sets registered: [audio, replaced]
    pendingEvents,    \* media events queued by the element, oldest first
    lastCommand,      \* command the last operation gave the media element
    probeTime,        \* argument of the last findWordIndex call (SpecLocate)
    located,          \* result of the last findWordIndex call (SpecLocate)
    phase,            \* "committed", how far an alignment switch has got,
                      \* or "unmounted"
    closure,          \* words and index handleTimeUpdateRef.current closes over
    lastOp            \* name of the last operation that ran

propVars == <<alignment, hideAudioTags, segments, words>>

hookVars == <<currentWordIndex, isPlaying, isScrubbing, duration, currentTime,
              rafRef, rafScheduled>>

mediaVars == <<audioRef, audio, listeners, pendingEvents>>

vars == <<alignment, hideAudioTags, segments, words, currentWordIndex,
          isPlaying, isScrubbing, duration, currentTime, rafRef,
          rafScheduled, audioRef, audio, listeners, pendingEvents,
          lastCommand, probeTime, located, phase, closure, lastOp>>

----------------------------------------------------------------------------
(* Bounds *)

MaxChars == 4     \* longest generated alignment
MaxTime == 2      \* largest time in a generated word list
MaxWords == 3     \* longest generated word list for findWordIndex
MaxRaf == 3       \* animation frame requests that can be outstanding
MaxPending == 1   \* queued media events beyond which no new one is caused
MaxTimedChars == 3 \* longest generated alignment with free start times

NoRaf == 0        \* rafRef.current === null
NaN == -1         \* audio.duration before the metadata is loaded

----------------------------------------------------------------------------
(* Characters *)

Whitespace == {" ", "\t", "\n"}

IsWhitespace(char) == char \in Whitespace

Alphabet == {"a", " ", "[", "]"}

----------------------------------------------------------------------------
(* segment-composer.ts *)

StartAt(al, i) == IF i <= Len(al.starts) THEN al.starts[i] ELSE 0

EndAt(al, i) == IF i <= Len(al.ends) THEN al.ends[i] ELSE StartAt(al, i)

ComposerInit ==
    [segments |-> <<>>, words |-> <<>>,
     wordBuffer |-> <<>>, whitespaceBuffer |-> <<>>,
     wordStart |-> 0, wordEnd |-> 0,
     segmentIndex |-> 0, wordIndex |-> 0,
     insideAudioTag |-> FALSE]

flushWhitespaceDropping(st) ==
    [st EXCEPT !.whitespaceBuffer = <<>>]

flushWhitespace(st) ==
    IF st.whitespaceBuffer = <<>> THEN st
    ELSE [st EXCEPT
            !.segments = Append(@, [kind |-> "gap",
                                    segmentIndex |-> st.segmentIndex,
                                    text |-> st.whitespaceBuffer]),
            !.segmentIndex = @ + 1,
            !.whitespaceBuffer = <<>>]

flushWordSharedIndex(st) ==
    IF st.wordBuffer = <<>> THEN st
    ELSE LET word == [kind |-> "word",
                      segmentIndex |-> st.wordIndex,
                      wordIndex |-> st.wordIndex,
                      text |-> st.wordBuffer,
                      startTime |-> st.wordStart,
                      endTime |-> st.wordEnd]
         IN [st EXCEPT
               !.segments = Append(@, word),
               !.words = Append(@, word),
               !.segmentIndex = @ + 1,
               !.wordIndex = @ + 1,
               !.wordBuffer = <<>>]

flushWordPrepending(st) ==
    IF st.wordBuffer = <<>> THEN st
    ELSE LET word == [kind |-> "word",
                      segmentIndex |-> st.segmentIndex,
                      wordIndex |-> st.wordIndex,
                      text |-> st.wordBuffer,
                      startTime |-> st.wordStart,
                      endTime |-> st.wordEnd]
         IN [st EXCEPT
               !.segments = Append(@, word),
               !.words = <<word>> \o @,
               !.segmentIndex = @ + 1,
               !.wordIndex = @ + 1,
               !.wordBuffer = <<>>]

flushWord(st) ==
    IF st.wordBuffer = <<>> THEN st
    ELSE LET word == [kind |-> "word",
                      segmentIndex |-> st.segmentIndex,
                      wordIndex |-> st.wordIndex,
                      text |-> st.wordBuffer,
                      startTime |-> st.wordStart,
                      endTime |-> st.wordEnd]
         IN [st EXCEPT
               !.segments = Append(@, word),
               !.words = Append(@, word),
               !.segmentIndex = @ + 1,
               !.wordIndex = @ + 1,
               !.wordBuffer = <<>>]

OpenAudioTagKeepingWhitespace(st) ==
    [flushWord(st) EXCEPT !.insideAudioTag = TRUE]

\* lines 63-68: the character is "[" and hideAudioTags is set
OpenAudioTag(st) ==
    [flushWord(st) EXCEPT !.whitespaceBuffer = <<>>,
                          !.insideAudioTag = TRUE]

\* lines 70-73: inside a tag, every character is skipped, "]" leaves the tag
SkipInsideAudioTag(st, char) ==
    IF char = "]" THEN [st EXCEPT !.insideAudioTag = FALSE] ELSE st

\* a composer that emits every whitespace character as a gap of its own
AppendWhitespaceEachAGap(st, char) ==
    [flushWhitespace(flushWord(st)) EXCEPT !.whitespaceBuffer = <<char>>]

\* lines 76-80
AppendWhitespace(st, char) ==
    [flushWord(st) EXCEPT !.whitespaceBuffer = Append(@, char)]

AppendToWordFirstEnd(st, char, start, end) ==
    LET s1 == IF st.whitespaceBuffer # <<>> THEN flushWhitespace(st) ELSE st
    IN IF s1.wordBuffer = <<>>
       THEN [s1 EXCEPT !.wordBuffer = <<char>>,
                       !.wordStart = start,
                       !.wordEnd = end]
       ELSE [s1 EXCEPT !.wordBuffer = Append(@, char)]

\* lines 82-93
AppendToWord(st, char, start, end) ==
    LET s1 == IF st.whitespaceBuffer # <<>> THEN flushWhitespace(st) ELSE st
    IN IF s1.wordBuffer = <<>>
       THEN [s1 EXCEPT !.wordBuffer = <<char>>,
                       !.wordStart = start,
                       !.wordEnd = end]
       ELSE [s1 EXCEPT !.wordBuffer = Append(@, char),
                       !.wordEnd = end]

\* one iteration of the loop of lines 57-94
ScanChar(st, char, start, end, hide) ==
    IF hide /\ char = "[" THEN OpenAudioTag(st)
    ELSE IF hide /\ st.insideAudioTag THEN SkipInsideAudioTag(st, char)
    ELSE IF IsWhitespace(char) THEN AppendWhitespace(st, char)
    ELSE AppendToWord(st, char, start, end)

RECURSIVE ScanFrom(_, _, _, _)
ScanFrom(st, al, i, hide) ==
    IF i > Len(al.characters) THEN st
    ELSE ScanFrom(ScanChar(st, al.characters[i], StartAt(al, i),
                           EndAt(al, i), hide),
                  al, i + 1, hide)

composeSegments(al, hide) ==
    LET st == flushWhitespace(flushWord(ScanFrom(ComposerInit, al, 1, hide)))
    IN [segments |-> st.segments, words |-> st.words]

----------------------------------------------------------------------------
(* word-index.ts *)

RECURSIVE BinarySearch(_, _, _, _)
BinarySearch(ws, time, lo, hi) ==
    IF lo > hi THEN -1
    ELSE LET mid == (lo + hi) \div 2
             word == ws[mid + 1]
         IN IF time >= word.startTime /\ time < word.endTime THEN mid
            ELSE IF time < word.startTime
                 THEN BinarySearch(ws, time, lo, mid - 1)
                 ELSE BinarySearch(ws, time, mid + 1, hi)

findWordIndexClosed(ws, time) ==
    IF \E i \in 1..Len(ws) : ws[i].startTime <= time /\ time <= ws[i].endTime
    THEN (CHOOSE i \in 1..Len(ws) :
             ws[i].startTime <= time /\ time <= ws[i].endTime) - 1
    ELSE -1

findWordIndexLastStarted(ws, time) ==
    IF \E i \in 1..Len(ws) : ws[i].startTime <= time
    THEN (CHOOSE i \in 1..Len(ws) :
             /\ ws[i].startTime <= time
             /\ \A j \in (i + 1)..Len(ws) : ws[j].startTime > time) - 1
    ELSE -1

\* the number of times the loop of lines 395-408 inspects a word
RECURSIVE BinarySearchProbes(_, _, _, _)
BinarySearchProbes(ws, time, lo, hi) ==
    IF lo > hi THEN 0
    ELSE LET mid == (lo + hi) \div 2
             word == ws[mid + 1]
         IN IF time >= word.startTime /\ time < word.endTime THEN 1
            ELSE IF time < word.startTime
                 THEN 1 + BinarySearchProbes(ws, time, lo, mid - 1)
                 ELSE 1 + BinarySearchProbes(ws, time, mid + 1, hi)

findWordIndex(ws, time) ==
    IF Len(ws) = 0 THEN -1
    ELSE BinarySearch(ws, time, 0, Len(ws) - 1)

----------------------------------------------------------------------------
(* use-transcript-viewer.ts: derived view state *)

currentWordOf(ws, cwi) ==
    IF cwi >= 0 /\ cwi < Len(ws) THEN <<ws[cwi + 1]>> ELSE <<>>

currentSegmentIndexOf(ws, cwi) ==
    IF currentWordOf(ws, cwi) # <<>>
    THEN currentWordOf(ws, cwi)[1].segmentIndex
    ELSE -1

computeSpokenSegmentsInclusive(segs, csi) ==
    IF Len(segs) = 0 \/ csi <= 0 THEN <<>>
    ELSE SubSeq(segs, 1, csi + 1)

computeSpokenSegments(segs, csi) ==
    IF Len(segs) = 0 \/ csi <= 0 THEN <<>>
    ELSE SubSeq(segs, 1, csi)

computeUnspokenSegments(segs, csi) ==
    IF Len(segs) = 0 THEN <<>>
    ELSE IF csi = -1 THEN segs
    ELSE IF csi + 1 >= Len(segs) THEN <<>>
    ELSE SubSeq(segs, csi + 2, Len(segs))

currentWord == currentWordOf(words, currentWordIndex)

currentSegmentIndex == currentSegmentIndexOf(words, currentWordIndex)

spokenSegments == computeSpokenSegments(segments, currentSegmentIndex)

unspokenSegments == computeUnspokenSegments(segments, currentSegmentIndex)

----------------------------------------------------------------------------
(* scrub-bar.tsx: TranscriptViewerWords *)

\* a list that gives the whole last second as the end
nearEndWithinASecond(dur, time) ==
    IF dur = 0 THEN FALSE ELSE time >= dur - 10

\* lines 408-411; times are tenths of a second, 0.01 s is a tenth of one
nearEndOf(dur, time) ==
    IF dur = 0 THEN FALSE ELSE time * 10 >= dur * 10 - 1

WithStatus(segs, status) ==
    [i \in 1..Len(segs) |-> [segment |-> segs[i], status |-> status]]

\* lines 413-439; cur is the current word, <<>> when there is none
segmentsWithStatusOf(segs, spoken, cur, unspoken, near) ==
    IF near THEN WithStatus(segs, "spoken")
    ELSE WithStatus(spoken, "spoken") \o WithStatus(cur, "current")
            \o WithStatus(unspoken, "unspoken")

nearEnd == nearEndOf(duration, currentTime)

segmentsWithStatus ==
    segmentsWithStatusOf(segments, spokenSegments, currentWord,
                         unspokenSegments, nearEnd)

----------------------------------------------------------------------------
(* Inputs of the pure functions *)

SeqsUpTo(S, n) == UNION {[1..k -> S] : k \in 0..n}

\* characters with the times of evenly spaced speech: character i is
\* spoken during [i-1, i]
EvenlyTimed(chars) ==
    [characters |-> chars,
     starts |-> [i \in 1..Len(chars) |-> i - 1],
     ends |-> [i \in 1..Len(chars) |-> i]]

CharAlignments == {EvenlyTimed(chars) : chars \in SeqsUpTo(Alphabet, MaxChars)}

\* spec.md, section 8: "[cough] Hi there"
CoughAlignment ==
    EvenlyTimed(<<"[", "c", "o", "u", "g", "h", "]", " ",
                  "H", "i", " ", "t", "h", "e", "r", "e">>)

\* spec.md, section 8: words Hi [0, 0.5] and there [0.6, 1.0]
HiThereAlignment ==
    [characters |-> <<"H", "i", " ", "t", "h", "e", "r", "e">>,
     starts |-> <<0, 5, 5, 6, 6, 6, 6, 6>>,
     ends |-> <<5, 5, 6, 6, 6, 6, 6, 10>>]

\* spec.md, section 8: words [0, 1] and [1.5, 2] around a silent gap
SilentGapAlignment ==
    [characters |-> <<"a", "b", " ", " ", "c">>,
     starts |-> <<0, 5, 10, 12, 15>>,
     ends |-> <<5, 10, 12, 15, 20>>]

\* an alignment whose time arrays are shorter than its characters
ShortTimesAlignment ==
    [characters |-> <<"a", " ", "b">>, starts |-> <<1>>, ends |-> <<>>]

ScenarioAlignments ==
    {CoughAlignment, HiThereAlignment, SilentGapAlignment,
     ShortTimesAlignment}

WordOf(i, s, e) ==
    [kind |-> "word", segmentIndex |-> i - 1, wordIndex |-> i - 1,
     text |-> <<"a">>, startTime |-> s, endTime |-> e]

\* every word list, sorted or not, overlapping or not
WordLists ==
    {[i \in 1..Len(ts) |-> WordOf(i, ts[i][1], ts[i][2])] :
        ts \in SeqsUpTo((0..MaxTime) \X (0..MaxTime), MaxWords)}

----------------------------------------------------------------------------
(* SpecCompose: composeSegments and the derived view on every alignment *)

viewerVars == <<isPlaying, isScrubbing, duration, currentTime, rafRef,
                rafScheduled, audioRef, audio, listeners, pendingEvents,
                lastCommand, phase, closure>>

\* handleTimeUpdateRef.current is the callback of the render on show
NoClosure == [words |-> <<>>, currentWordIndex |-> -1]

\* no handler is registered, neither on the media element nor on one that
\* it replaced
NoListeners == [audio |-> 0, replaced |-> 0]

\* the playback state of a viewer that has no media element
IdleViewer ==
    /\ isPlaying = FALSE
    /\ isScrubbing = FALSE
    /\ duration = 0
    /\ currentTime = 0
    /\ rafRef = NoRaf
    /\ rafScheduled = {}
    /\ audioRef = "null"
    /\ audio = [paused |-> TRUE, currentTime |-> 0, duration |-> NaN]
    /\ listeners = NoListeners
    /\ pendingEvents = <<>>
    /\ lastCommand = "none"
    /\ phase = "committed"
    /\ closure = NoClosure

InitCompose ==
    /\ alignment \in CharAlignments \cup ScenarioAlignments
    /\ hideAudioTags \in BOOLEAN
    /\ segments = <<>>
    /\ words = <<>>
    /\ currentWordIndex = -1
    /\ IdleViewer
    /\ probeTime = 0
    /\ located = -1
    /\ lastOp = "init"

\* lines 68-73 and 82-84: the memoised composition and the initial index
Compose ==
    /\ lastOp = "init"
    /\ LET r == composeSegments(alignment, hideAudioTags)
       IN /\ segments' = r.segments
          /\ words' = r.words
          /\ currentWordIndex' = IF Len(r.words) > 0 THEN 0 ELSE -1
    /\ lastOp' = "composeSegments"
    /\ UNCHANGED <<alignment, hideAudioTags, probeTime, located>>
    /\ UNCHANGED viewerVars

\* setCurrentWordIndex with any value, in range or not
SelectWord(i) ==
    /\ lastOp # "init"
    /\ currentWordIndex' = i
    /\ lastOp' = "setCurrentWordIndex"
    /\ UNCHANGED <<alignment, hideAudioTags, segments, words, probeTime,
                   located>>
    /\ UNCHANGED viewerVars

NextCompose ==
    \/ Compose
    \/ \E i \in -1..Len(words) : SelectWord(i)

SpecCompose == InitCompose /\ [][NextCompose]_vars

----------------------------------------------------------------------------
(* SpecTimed: composeSegments on alignments with any start times *)

\* the texts of SpecTimed: every text of up to MaxTimedChars letters and
\* spaces, and two texts that hold an audio tag between two words
TimedTexts ==
    SeqsUpTo({"a", " "}, MaxTimedChars)
        \cup {<<"a", "[", "]", "a">>, <<"[", "a", "]", "a">>}

\* every such text with start times taken freely from 0..MaxTime,
\* non-decreasing or not, each character lasting 0 or 1
TimedAlignments ==
    UNION {{[characters |-> chars,
             starts |-> starts,
             ends |-> [i \in 1..Len(chars) |-> starts[i] + lasting]] :
               starts \in [1..Len(chars) -> 0..MaxTime], lasting \in 0..1} :
           chars \in TimedTexts}

InitTimed ==
    /\ alignment \in TimedAlignments
    /\ hideAudioTags \in BOOLEAN
    /\ segments = <<>>
    /\ words = <<>>
    /\ currentWordIndex = -1
    /\ IdleViewer
    /\ probeTime = 0
    /\ located = -1
    /\ lastOp = "init"

NextTimed == Compose

SpecTimed == InitTimed /\ [][NextTimed]_vars

----------------------------------------------------------------------------
(* SpecLocate: findWordIndex on every word list and time *)

InitLocate ==
    /\ alignment = EvenlyTimed(<<>>)
    /\ hideAudioTags = TRUE
    /\ segments = <<>>
    /\ words \in WordLists
    /\ currentWordIndex = -1
    /\ IdleViewer
    /\ probeTime = 0
    /\ located = -1
    /\ lastOp = "init"

Locate(t) ==
    /\ lastOp = "init"
    /\ probeTime' = t
    /\ located' = findWordIndex(words, t)
    /\ lastOp' = "findWordIndex"
    /\ UNCHANGED <<alignment, hideAudioTags, segments, words,
                   currentWordIndex>>
    /\ UNCHANGED viewerVars

NextLocate == \E t \in 0..(MaxTime + 1) : Locate(t)

SpecLocate == InitLocate /\ [][NextLocate]_vars

----------------------------------------------------------------------------
(* use-transcript-viewer.ts: helpers *)

Last(seq) == seq[Len(seq)]

getAlignmentFallbackDuration(al, ws) ==
    IF Len(al.ends) > 0 THEN Last(al.ends)
    ELSE IF Len(ws) > 0 THEN Last(ws).endTime
    ELSE 0

getNextWordIndexSingleStep(ws, time, startIndex) ==
    IF startIndex + 1 < Len(ws) /\ time >= ws[startIndex + 2].startTime
    THEN startIndex + 1
    ELSE startIndex

RECURSIVE getNextWordIndexByStartTime(_, _, _)
getNextWordIndexByStartTime(ws, time, startIndex) ==
    IF startIndex + 1 < Len(ws) /\ time >= ws[startIndex + 2].startTime
    THEN getNextWordIndexByStartTime(ws, time, startIndex + 1)
    ELSE startIndex

(* The hook's state and refs as one record h, so that the handlers can be  *)
(* written as the sequences of calls they are.                             *)
Hook ==
    [currentWordIndex |-> currentWordIndex, isPlaying |-> isPlaying,
     isScrubbing |-> isScrubbing, duration |-> duration,
     currentTime |-> currentTime, rafRef |-> rafRef,
     rafScheduled |-> rafScheduled]

SetHook(h) ==
    /\ currentWordIndex' = h.currentWordIndex
    /\ isPlaying' = h.isPlaying
    /\ isScrubbing' = h.isScrubbing
    /\ duration' = h.duration
    /\ currentTime' = h.currentTime
    /\ rafRef' = h.rafRef
    /\ rafScheduled' = h.rafScheduled

handleTimeUpdateAlwaysLocate(h, ws, time) ==
    IF Len(ws) = 0 THEN h
    ELSE [h EXCEPT !.currentWordIndex = findWordIndex(ws, time)]

wordIndexUpdateSnapping(ws, cwi, time) ==
    IF Len(ws) = 0 THEN <<>>
    ELSE IF ~(cwi >= 0 /\ cwi < Len(ws)) THEN <<findWordIndex(ws, time)>>
    ELSE IF time >= ws[cwi + 1].endTime /\ cwi + 1 < Len(ws)
    THEN <<getNextWordIndexByStartTime(ws, time, cwi)>>
    ELSE <<findWordIndex(ws, time)>>

\* lines 96-133, the argument of the setCurrentWordIndex call the callback
\* makes, or <<>> if it makes none; ws and cwi are the words and the
\* currentWordIndex of the render the callback was created in
wordIndexUpdate(ws, cwi, time) ==
    IF Len(ws) = 0 THEN <<>>
    ELSE LET found == findWordIndex(ws, time)
         IN IF ~(cwi >= 0 /\ cwi < Len(ws))
            THEN IF found # -1 THEN <<found>> ELSE <<>>
            ELSE IF time >= ws[cwi + 1].endTime /\ cwi + 1 < Len(ws)
            THEN <<getNextWordIndexByStartTime(ws, time, cwi)>>
            ELSE IF time < ws[cwi + 1].startTime
            THEN IF found # -1 THEN <<found>> ELSE <<>>
            ELSE IF found # -1 /\ found # cwi THEN <<found>>
            ELSE <<>>

\* lines 96-133, called in the render that created it
handleTimeUpdate(h, ws, time) ==
    LET update == wordIndexUpdate(ws, h.currentWordIndex, time)
    IN IF update = <<>> THEN h
       ELSE [h EXCEPT !.currentWordIndex = update[1]]

\* lines 149-154
stopRaf(h) ==
    IF h.rafRef # NoRaf
    THEN [h EXCEPT !.rafScheduled = @ \ {h.rafRef}, !.rafRef = NoRaf]
    ELSE h

\* window.requestAnimationFrame: the callback is scheduled under an id that
\* no scheduled callback has
requestAnimationFrame(h) ==
    LET free == (1..MaxRaf) \ h.rafScheduled
        id == CHOOSE i \in free : \A j \in free : i <= j
    IN [h EXCEPT !.rafScheduled = @ \cup {id}, !.rafRef = id]

startRafUnguarded(h) ==
    IF Cardinality(h.rafScheduled) < MaxRaf
    THEN requestAnimationFrame(h)
    ELSE h

\* lines 170-172 and 185
startRaf(h) ==
    IF h.rafRef # NoRaf THEN h ELSE requestAnimationFrame(h)

\* lines 156-168
syncDurationFromMetadataIfMissing(h, node) ==
    IF node.duration = NaN \/ node.duration <= 0 THEN h
    ELSE IF h.duration = 0 THEN [h EXCEPT !.duration = node.duration]
    ELSE h

\* lines 173-184, the frame callback; ref is audioRef.current
tick(h, ws, ref, node) ==
    IF ref = "null" THEN [h EXCEPT !.rafRef = NoRaf]
    ELSE requestAnimationFrame(
            syncDurationFromMetadataIfMissing(
                handleTimeUpdate([h EXCEPT !.currentTime = node.currentTime],
                                 ws, node.currentTime),
                node))

\* lines 195-203
syncPlayback(h, node) == [h EXCEPT !.isPlaying = ~node.paused]

syncTime(h, node) == [h EXCEPT !.currentTime = node.currentTime]

syncDuration(h, node) ==
    [h EXCEPT !.duration = IF node.duration # NaN THEN node.duration ELSE 0]

\* lines 205-233
handlePlay(h, node) == startRaf(syncPlayback(h, node))

handlePause(h, node) == stopRaf(syncTime(syncPlayback(h, node), node))

handleEnded(h, node) == stopRaf(syncTime(syncPlayback(h, node), node))

handleTimeUpdateEvent(h, node) == syncTime(h, node)

handleSeeked(h, ws, node) ==
    handleTimeUpdate(syncTime(h, node), ws, node.currentTime)

handleDuration(h, node) == syncDuration(h, node)

\* lines 161 and 232: the values that the operation op, run on the hook state
\* h, passes to the callback onDurationChange; handleDuration passes the
\* element's duration whatever it is, the frame callback passes it when
\* syncDurationFromMetadataIfMissing finds the duration state at 0
onDurationChangeCalls(op, h, ref, node) ==
    IF op = "handleDuration" THEN <<node.duration>>
    ELSE IF /\ op = "tick"
            /\ ref # "null"
            /\ ~(node.duration = NaN \/ node.duration <= 0)
            /\ h.duration = 0
         THEN <<node.duration>>
    ELSE <<>>

\* lines 235-242, the body of the effect before it registers the handlers
syncOnSetup(h, node) ==
    LET h1 == syncDuration(syncTime(syncPlayback(h, node), node), node)
    IN IF ~node.paused THEN startRaf(h1) ELSE stopRaf(h1)

\* lines 190-250: the effect returns at once when audioRef.current is null,
\* otherwise it syncs the state and registers its handlers on the element;
\* ls counts the handler sets that are registered
setupAudioEventListeners(h, ls, ref, node) ==
    IF ref = "null" THEN [hook |-> h, listeners |-> ls]
    ELSE [hook |-> syncOnSetup(h, node),
          listeners |-> [ls EXCEPT !.audio = @ + 1]]

\* lines 252-261: the cleanup that the effect returned, if it returned one,
\* stops the loop and removes its handlers from the element it had found
cleanupAudioEventListeners(h, ls) ==
    IF ls.audio > 0
    THEN [hook |-> stopRaf(h), listeners |-> [ls EXCEPT !.audio = @ - 1]]
    ELSE IF ls.replaced > 0
    THEN [hook |-> stopRaf(h), listeners |-> [ls EXCEPT !.replaced = @ - 1]]
    ELSE [hook |-> h, listeners |-> ls]

syncSeekTimeStateTimeOnly(h, ws, time) ==
    [h EXCEPT !.currentTime = time]

\* lines 275-281
syncSeekTimeState(h, ws, time) ==
    handleTimeUpdate([h EXCEPT !.currentTime = time], ws, time)

seekToTimeUnmounted(h, ws, ref, time) ==
    [hook |-> syncSeekTimeState(h, ws, time), seek |-> <<time>>]

seekToTimeAwaitingSeeked(h, ws, ref, time) ==
    IF ref = "null" THEN [hook |-> h, seek |-> <<>>]
    ELSE [hook |-> h, seek |-> <<time>>]

\* lines 283-291; seek is the time assigned to node.currentTime, if any
seekToTime(h, ws, ref, time) ==
    IF ref = "null" THEN [hook |-> h, seek |-> <<>>]
    ELSE [hook |-> syncSeekTimeState(h, ws, time), seek |-> <<time>>]

resolveWordClamped(ws, index) ==
    IF Len(ws) = 0 THEN <<>>
    ELSE IF index < 0 THEN <<ws[1]>>
    ELSE IF index >= Len(ws) THEN <<Last(ws)>>
    ELSE <<ws[index + 1]>>

\* line 295, words[word]: the word at the index, or nothing (undefined)
resolveWord(ws, index) ==
    IF index >= 0 /\ index < Len(ws) THEN <<ws[index + 1]>> ELSE <<>>

\* lines 296-297; target is <<>> for undefined or null
seekToWord(h, ws, ref, target) ==
    IF target = <<>> THEN [hook |-> h, seek |-> <<>>]
    ELSE seekToTime(h, ws, ref, target[1].startTime)

\* lines 323-329
startScrubbing(h) == stopRaf([h EXCEPT !.isScrubbing = TRUE])

\* lines 331-340
endScrubbing(h, ref, node) ==
    LET h1 == [h EXCEPT !.isScrubbing = FALSE]
    IN IF ref # "null" /\ ~node.paused THEN startRaf(h1) ELSE h1

resetStateKeepingIndex(h, al, ws) ==
    [h EXCEPT !.currentTime = 0,
              !.duration = getAlignmentFallbackDuration(al, ws),
              !.isPlaying = FALSE]

\* lines 86-94
resetStateOnAlignmentChange(h, al, ws) ==
    [h EXCEPT !.currentTime = 0,
              !.duration = getAlignmentFallbackDuration(al, ws),
              !.isPlaying = FALSE,
              !.currentWordIndex = IF Len(ws) > 0 THEN 0 ELSE -1]

----------------------------------------------------------------------------
(* SpecTrack: the word-index policy on every word list, index and time *)

\* every list of up to MaxWords words in the order of their start times,
\* each word lasting 0, 1 or 2: lists with and without overlapping words
\* and words of zero length
TrackLists ==
    {[i \in 1..Len(ts) |-> WordOf(i, ts[i][1], ts[i][1] + ts[i][2])] :
        ts \in {q \in SeqsUpTo((0..MaxTime) \X (0..2), MaxWords) :
                  \A i \in 1..(Len(q) - 1) : q[i][1] <= q[i + 1][1]}}

\* a viewer that tracks any word of its list, or none
InitTrack ==
    /\ alignment = EvenlyTimed(<<>>)
    /\ hideAudioTags = TRUE
    /\ segments = <<>>
    /\ words \in TrackLists
    /\ currentWordIndex \in -1..(Len(words) - 1)
    /\ IdleViewer
    /\ probeTime = 0
    /\ located = -1
    /\ lastOp = "init"

\* handleTimeUpdateRef.current(t), as the frame callback, seekToTime and
\* the seeked handler call it
TimeUpdate(t) ==
    /\ SetHook(handleTimeUpdate(Hook, words, t))
    /\ probeTime' = t
    /\ lastOp' = "handleTimeUpdate"
    /\ UNCHANGED <<propVars, mediaVars, lastCommand, located, phase, closure>>

NextTrack == \E t \in 0..(MaxTime + 2) : TimeUpdate(t)

SpecTrack == InitTrack /\ [][NextTrack]_vars

----------------------------------------------------------------------------
(* The media element behind audioRef (spec.md, section 6) *)

FreshAudio == [paused |-> TRUE, currentTime |-> 0, duration |-> NaN]

Instants(al) ==
    {0} \cup {al.starts[i] : i \in 1..Len(al.starts)}
        \cup {al.ends[i] : i \in 1..Len(al.ends)}

Max(S) == CHOOSE x \in S : \A y \in S : y <= x

\* the media runs a little longer than the last character of its transcript
MediaDuration(al) == Max(Instants(al)) + 1

MediaTimes(al) == Instants(al) \cup {MediaDuration(al)}

\* the queue of media events is short enough for a further one
HasRoom == Len(pendingEvents) < MaxPending

----------------------------------------------------------------------------
(* Spec: the playback synchronizer *)

\* Spec switches between a transcript without words and one with a word
ViewerAlignments == {EvenlyTimed(<<>>), EvenlyTimed(<<"a">>)}

\* the first render and its effects: resetStateOnAlignmentChange, then
\* setupAudioEventListeners, which finds the media element mounted or not
InitWith(alignments) ==
    /\ alignment \in alignments
    /\ hideAudioTags = TRUE
    /\ LET r == composeSegments(alignment, hideAudioTags)
       IN /\ segments = r.segments
          /\ words = r.words
    /\ audioRef \in {"null", "audio"}
    /\ audio = FreshAudio
    /\ pendingEvents = <<>>
    /\ LET h0 == resetStateOnAlignmentChange(
                    [currentWordIndex |-> -1, isPlaying |-> FALSE,
                     isScrubbing |-> FALSE, duration |-> 0,
                     currentTime |-> 0, rafRef |-> NoRaf,
                     rafScheduled |-> {}], alignment, words)
           r == setupAudioEventListeners(h0, NoListeners, audioRef, audio)
           h1 == r.hook
       IN /\ listeners = r.listeners
          /\ currentWordIndex = h1.currentWordIndex
          /\ isPlaying = h1.isPlaying
          /\ isScrubbing = h1.isScrubbing
          /\ duration = h1.duration
          /\ currentTime = h1.currentTime
          /\ rafRef = h1.rafRef
          /\ rafScheduled = h1.rafScheduled
    /\ lastCommand = "none"
    /\ probeTime = 0
    /\ located = -1
    /\ phase = "committed"
    /\ closure = NoClosure
    /\ lastOp = "init"

\* the component that uses the hook is mounted
Mounted == phase # "unmounted"

Returns(op, cmd) ==
    /\ lastOp' = op
    /\ lastCommand' = cmd
    /\ UNCHANGED <<probeTime, located, phase, closure>>

\* an operation that only a mounted component runs
Done(op, cmd) == Mounted /\ Returns(op, cmd)

(* Public operations *)

\* the assignment node.currentTime = time: the element moves and reports
\* the completed seek later
Seeks(r) ==
    IF r.seek = <<>>
    THEN UNCHANGED <<audio, pendingEvents>>
    ELSE /\ audio' = [audio EXCEPT !.currentTime = r.seek[1]]
         /\ pendingEvents' = Append(pendingEvents, "seeked")

SeekToTime(time) ==
    /\ HasRoom
    /\ LET r == seekToTime(Hook, words, audioRef, time)
       IN /\ SetHook(r.hook)
          /\ Seeks(r)
          /\ Done("seekToTime", IF r.seek = <<>> THEN "none" ELSE "seek")
    /\ UNCHANGED <<propVars, audioRef, listeners>>

SeekToWordTarget(target) ==
    /\ HasRoom
    /\ LET r == seekToWord(Hook, words, audioRef, target)
       IN /\ SetHook(r.hook)
          /\ Seeks(r)
          /\ Done("seekToWord", IF r.seek = <<>> THEN "none" ELSE "seek")
    /\ UNCHANGED <<propVars, audioRef, listeners>>

\* seekToWord(index), also with indices that are out of range
SeekToWordIndex(index) == SeekToWordTarget(resolveWord(words, index))

\* seekToWord(word) with a word of the list, or null
SeekToWordObject(target) == SeekToWordTarget(target)

PlayOptimistic ==
    /\ HasRoom
    /\ audioRef # "null" /\ audio.paused
    /\ audio' = [audio EXCEPT !.paused = FALSE]
    /\ pendingEvents' = Append(pendingEvents, "play")
    /\ SetHook([Hook EXCEPT !.isPlaying = TRUE])
    /\ Done("play", "play")
    /\ UNCHANGED <<propVars, audioRef, listeners>>

\* lines 302-311
Play ==
    /\ HasRoom
    /\ IF audioRef # "null" /\ audio.paused
       THEN /\ audio' = [audio EXCEPT !.paused = FALSE]
            /\ pendingEvents' = Append(pendingEvents, "play")
            /\ Done("play", "play")
       ELSE /\ UNCHANGED <<audio, pendingEvents>>
            /\ Done("play", "none")
    /\ UNCHANGED <<propVars, hookVars, audioRef, listeners>>

\* lines 313-321
Pause ==
    /\ HasRoom
    /\ IF audioRef # "null" /\ ~audio.paused
       THEN /\ audio' = [audio EXCEPT !.paused = TRUE]
            /\ pendingEvents' = Append(pendingEvents, "pause")
            /\ Done("pause", "pause")
       ELSE /\ UNCHANGED <<audio, pendingEvents>>
            /\ Done("pause", "none")
    /\ UNCHANGED <<propVars, hookVars, audioRef, listeners>>

StartScrubbing ==
    /\ SetHook(startScrubbing(Hook))
    /\ Done("startScrubbing", "none")
    /\ UNCHANGED <<propVars, mediaVars>>

EndScrubbing ==
    /\ SetHook(endScrubbing(Hook, audioRef, audio))
    /\ Done("endScrubbing", "none")
    /\ UNCHANGED <<propVars, mediaVars>>

(* The polling loop *)

\* an animation frame: one scheduled callback fires
Tick(id) ==
    /\ id \in rafScheduled
    /\ SetHook(tick([Hook EXCEPT !.rafScheduled = @ \ {id}], words,
                    audioRef, audio))
    /\ Returns("tick", "none")
    /\ UNCHANGED <<propVars, mediaVars>>

(* Media events, handled by the registered handlers in the order queued *)

Handles(event, handler) ==
    /\ pendingEvents # <<>>
    /\ Head(pendingEvents) = event
    /\ listeners.audio > 0
    /\ pendingEvents' = Tail(pendingEvents)
    /\ Returns(handler, "none")
    /\ UNCHANGED <<propVars, audioRef, audio, listeners>>

HandlePlay == Handles("play", "handlePlay") /\ SetHook(handlePlay(Hook, audio))

HandlePause ==
    Handles("pause", "handlePause") /\ SetHook(handlePause(Hook, audio))

HandleEnded ==
    Handles("ended", "handleEnded") /\ SetHook(handleEnded(Hook, audio))

HandleTimeUpdateEvent ==
    /\ Handles("timeupdate", "handleTimeUpdateEvent")
    /\ SetHook(handleTimeUpdateEvent(Hook, audio))

HandleSeeked ==
    /\ Handles("seeked", "handleSeeked")
    /\ SetHook(handleSeeked(Hook, words, audio))

HandleDurationChange ==
    /\ Handles("durationchange", "handleDuration")
    /\ SetHook(handleDuration(Hook, audio))

HandleLoadedMetadata ==
    /\ Handles("loadedmetadata", "handleDuration")
    /\ SetHook(handleDuration(Hook, audio))

\* an event of an element that has no handler registered is lost
UnhandledEvent ==
    /\ pendingEvents # <<>>
    /\ listeners.audio = 0
    /\ pendingEvents' = Tail(pendingEvents)
    /\ Returns("media", "none")
    /\ UNCHANGED <<propVars, hookVars, audioRef, audio, listeners>>

(* The media element *)

\* the metadata arrives: the duration is known, and the element reports it
\* with a durationchange and a loadedmetadata event
LoadMetadata ==
    /\ audioRef = "audio"
    /\ audio.duration = NaN
    /\ pendingEvents = <<>>
    /\ audio' = [audio EXCEPT !.duration = MediaDuration(alignment)]
    /\ pendingEvents' = pendingEvents \o <<"durationchange", "loadedmetadata">>
    /\ Done("media", "none")
    /\ UNCHANGED <<propVars, hookVars, audioRef, listeners>>

\* playback moves the position forward
TransportAdvance(time) ==
    /\ audioRef = "audio"
    /\ ~audio.paused
    /\ audio.duration # NaN
    /\ time > audio.currentTime
    /\ time <= audio.duration
    /\ audio' = [audio EXCEPT !.currentTime = time]
    /\ pendingEvents' = IF HasRoom THEN Append(pendingEvents, "timeupdate")
                        ELSE pendingEvents
    /\ Done("media", "none")
    /\ UNCHANGED <<propVars, hookVars, audioRef, listeners>>

\* playback reaches the end of the media: the element pauses itself
TransportEnds ==
    /\ audioRef = "audio"
    /\ ~audio.paused
    /\ audio.duration # NaN
    /\ HasRoom
    /\ audio' = [audio EXCEPT !.currentTime = audio.duration,
                              !.paused = TRUE]
    /\ pendingEvents' = Append(pendingEvents, "ended")
    /\ Done("media", "none")
    /\ UNCHANGED <<propVars, hookVars, audioRef, listeners>>

(* Rendering *)

\* the <audio> element is unmounted: the ref is cleared and the element,
\* removed from the document, pauses
UnmountAudio ==
    /\ audioRef = "audio"
    /\ HasRoom
    /\ audioRef' = "null"
    /\ audio' = [audio EXCEPT !.paused = TRUE]
    /\ pendingEvents' = IF ~audio.paused THEN Append(pendingEvents, "pause")
                        ELSE pendingEvents
    /\ Done("unmountAudio", "none")
    /\ UNCHANGED <<propVars, hookVars, listeners>>

\* a new <audio> element is mounted; the effect that registers the handlers
\* does not depend on it and does not run
MountAudio ==
    /\ audioRef = "null"
    /\ pendingEvents = <<>>
    /\ audioRef' = "audio"
    /\ audio' = FreshAudio
    /\ listeners' = [audio |-> 0,
                     replaced |-> listeners.audio + listeners.replaced]
    /\ Done("mountAudio", "none")
    /\ UNCHANGED <<propVars, hookVars, pendingEvents>>

\* lines 190-273: a callback prop changes, the effect is cleaned up and runs
\* again
SetupAudioEventListeners ==
    /\ LET cleaned == cleanupAudioEventListeners(Hook, listeners)
           r == setupAudioEventListeners(cleaned.hook, cleaned.listeners,
                                         audioRef, audio)
       IN /\ SetHook(r.hook)
          /\ listeners' = r.listeners
    /\ Done("setupAudioEventListeners", "none")
    /\ UNCHANGED <<propVars, audioRef, audio, pendingEvents>>

\* the component that uses the hook is unmounted, and the <audio> element
\* it renders with it: React clears the ref, the element pauses, and the
\* cleanup of the effect runs
Unmount ==
    /\ Mounted
    /\ audioRef' = "null"
    /\ audio' = [audio EXCEPT !.paused = TRUE]
    /\ pendingEvents' = IF audioRef = "audio" /\ ~audio.paused /\ HasRoom
                        THEN Append(pendingEvents, "pause")
                        ELSE pendingEvents
    /\ LET r == cleanupAudioEventListeners(Hook, listeners)
       IN /\ SetHook(r.hook)
          /\ listeners' = r.listeners
    /\ phase' = "unmounted"
    /\ lastOp' = "unmount"
    /\ lastCommand' = "none"
    /\ UNCHANGED <<propVars, probeTime, located, closure>>

\* a new alignment is supplied: lines 68-94
AlignmentChange(al) ==
    /\ al # alignment
    /\ alignment' = al
    /\ LET r == composeSegments(al, hideAudioTags)
       IN /\ segments' = r.segments
          /\ words' = r.words
          /\ SetHook(resetStateOnAlignmentChange(Hook, al, r.words))
    /\ Done("alignmentChange", "none")
    /\ UNCHANGED <<hideAudioTags, mediaVars>>

Next ==
    \/ \E time \in MediaTimes(alignment) : SeekToTime(time)
    \/ \E index \in -1..Len(words) : SeekToWordIndex(index)
    \/ \E target \in {<<>>} \cup {<<words[i]>> : i \in 1..Len(words)} :
          SeekToWordObject(target)
    \/ Play
    \/ Pause
    \/ StartScrubbing
    \/ EndScrubbing
    \/ \E id \in 1..MaxRaf : Tick(id)
    \/ HandlePlay
    \/ HandlePause
    \/ HandleEnded
    \/ HandleTimeUpdateEvent
    \/ HandleSeeked
    \/ HandleDurationChange
    \/ HandleLoadedMetadata
    \/ UnhandledEvent
    \/ LoadMetadata
    \/ \E time \in MediaTimes(alignment) : TransportAdvance(time)
    \/ TransportEnds
    \/ UnmountAudio
    \/ MountAudio
    \/ SetupAudioEventListeners
    \/ Unmount
    \/ \E al \in ViewerAlignments : AlignmentChange(al)

Init == InitWith(ViewerAlignments)

Spec == Init /\ [][Next]_vars

----------------------------------------------------------------------------
(* SpecPolicy: the word-index policy on the transcripts of spec.md,        *)
(* section 8, with the media element mounted and its handlers registered   *)

\* three words, the second of zero length, the third starting with it
ZeroLengthAlignment ==
    [characters |-> <<"a", " ", "b", " ", "c">>,
     starts |-> <<0, 1, 2, 2, 2>>,
     ends |-> <<1, 2, 2, 2, 3>>]

PolicyAlignments ==
    {HiThereAlignment, SilentGapAlignment, ZeroLengthAlignment}

InitPolicy == InitWith(PolicyAlignments) /\ audioRef = "audio"

NextPolicy ==
    \/ \E time \in MediaTimes(alignment) : SeekToTime(time)
    \/ \E index \in -1..Len(words) : SeekToWordIndex(index)
    \/ \E target \in {<<>>} \cup {<<words[i]>> : i \in 1..Len(words)} :
          SeekToWordObject(target)
    \/ Play
    \/ Pause
    \/ StartScrubbing
    \/ EndScrubbing
    \/ \E id \in 1..MaxRaf : Tick(id)
    \/ HandlePlay
    \/ HandlePause
    \/ HandleEnded
    \/ HandleTimeUpdateEvent
    \/ HandleSeeked
    \/ HandleDurationChange
    \/ HandleLoadedMetadata
    \/ LoadMetadata
    \/ \E time \in MediaTimes(alignment) : TransportAdvance(time)
    \/ TransportEnds

SpecPolicy == InitPolicy /\ [][NextPolicy]_vars

----------------------------------------------------------------------------
(* SpecSwitch: an alignment switch, step by step.  React renders the new   *)
(* alignment (useMemo, lines 68-73) with the state as it was, then runs    *)
(* the effects of that render (lines 86-94 and 135-140), then renders the  *)
(* state the effects set.  A frame callback, a seeked event or a seek that *)
(* comes in between calls handleTimeUpdateRef.current as bound by then.    *)

SwitchAlignments ==
    {EvenlyTimed(<<"a">>), SilentGapAlignment, ZeroLengthAlignment}

InitSwitch == InitWith(SwitchAlignments) /\ audioRef = "audio"

\* the render of a new alignment prop: words and segments are the new
\* ones, the state and the callback behind handleTimeUpdateRef the old ones
RenderNewAlignment(al) ==
    /\ phase = "committed"
    /\ al # alignment
    /\ alignment' = al
    /\ LET r == composeSegments(al, hideAudioTags)
       IN /\ segments' = r.segments
          /\ words' = r.words
    /\ closure' = [words |-> words, currentWordIndex |-> currentWordIndex]
    /\ phase' = "rendered"
    /\ lastOp' = "render"
    /\ lastCommand' = "none"
    /\ UNCHANGED <<hideAudioTags, hookVars, mediaVars, probeTime, located>>

\* the effects of that render: resetStateOnAlignmentChange sets the state,
\* syncHandleTimeUpdateRef binds the callback of that render, which closes
\* over the new words and the currentWordIndex that render had
RunEffects ==
    /\ phase = "rendered"
    /\ SetHook(resetStateOnAlignmentChange(Hook, alignment, words))
    /\ closure' = [closure EXCEPT !.words = words]
    /\ phase' = "reset"
    /\ lastOp' = "resetStateOnAlignmentChange"
    /\ lastCommand' = "none"
    /\ UNCHANGED <<propVars, mediaVars, probeTime, located>>

\* the render of the state the effects set; its effects bind its callback
RenderReset ==
    /\ phase = "reset"
    /\ phase' = "committed"
    /\ closure' = NoClosure
    /\ lastOp' = "render"
    /\ lastCommand' = "none"
    /\ UNCHANGED <<propVars, hookVars, mediaVars, probeTime, located>>

\* the state as the bound callback sees it
StaleHook == [Hook EXCEPT !.currentWordIndex = closure.currentWordIndex]

\* the state after a handler ran on StaleHook and gave r: a callback that
\* did not call setCurrentWordIndex leaves the index that is in the state
Queued(r, time) ==
    IF wordIndexUpdate(closure.words, closure.currentWordIndex, time) = <<>>
    THEN [r EXCEPT !.currentWordIndex = currentWordIndex]
    ELSE r

Between(op) ==
    /\ phase \in {"rendered", "reset"}
    /\ lastOp' = op
    /\ UNCHANGED <<propVars, audioRef, listeners, probeTime, located, phase,
                   closure>>

\* a frame callback between the steps of a switch
StaleTick(id) ==
    /\ Between("tick")
    /\ id \in rafScheduled
    /\ SetHook(Queued(tick([StaleHook EXCEPT !.rafScheduled = @ \ {id}],
                           closure.words, audioRef, audio),
                      audio.currentTime))
    /\ lastCommand' = "none"
    /\ UNCHANGED <<audio, pendingEvents>>

\* a seeked event between the steps of a switch
StaleSeeked ==
    /\ Between("handleSeeked")
    /\ pendingEvents # <<>>
    /\ Head(pendingEvents) = "seeked"
    /\ listeners.audio > 0
    /\ pendingEvents' = Tail(pendingEvents)
    /\ SetHook(Queued(handleSeeked(StaleHook, closure.words, audio),
                      audio.currentTime))
    /\ lastCommand' = "none"
    /\ UNCHANGED audio

\* seekToTime between the steps of a switch
StaleSeekToTime(time) ==
    /\ Between("seekToTime")
    /\ HasRoom
    /\ LET r == seekToTime(StaleHook, closure.words, audioRef, time)
       IN /\ SetHook(Queued(r.hook, time))
          /\ Seeks(r)
          /\ lastCommand' = IF r.seek = <<>> THEN "none" ELSE "seek"

Committed ==
    /\ phase = "committed"
    /\ \/ \E time \in MediaTimes(alignment) : SeekToTime(time)
       \/ \E index \in 0..(Len(words) - 1) : SeekToWordIndex(index)
       \/ Play
       \/ Pause
       \/ \E id \in 1..MaxRaf : Tick(id)
       \/ HandlePlay
       \/ HandlePause
       \/ HandleEnded
       \/ HandleTimeUpdateEvent
       \/ HandleSeeked
       \/ HandleDurationChange
       \/ HandleLoadedMetadata

NextSwitch ==
    \/ Committed
    \/ LoadMetadata
    \/ \E time \in MediaTimes(alignment) : TransportAdvance(time)
    \/ TransportEnds
    \/ \E al \in SwitchAlignments : RenderNewAlignment(al)
    \/ RunEffects
    \/ RenderReset
    \/ \E id \in 1..MaxRaf : StaleTick(id)
    \/ StaleSeeked
    \/ \E time \in MediaTimes(alignment) : StaleSeekToTime(time)

SpecSwitch == InitSwitch /\ [][NextSwitch]_vars

----------------------------------------------------------------------------
(* Claims about composeSegments *)

RECURSIVE SumTextLen(_)
SumTextLen(segs) ==
    IF segs = <<>> THEN 0 ELSE Len(Head(segs).text) + SumTextLen(Tail(segs))

RECURSIVE ConcatTexts(_)
ConcatTexts(segs) ==
    IF segs = <<>> THEN <<>> ELSE Head(segs).text \o ConcatTexts(Tail(segs))

IsGap(seg) == seg.kind = "gap"

IsWord(seg) == seg.kind = "word"

Gaps == SelectSeq(segments, IsGap)

Composed == lastOp = "composeSegments"

\* C1: with hideAudioTags = false the lengths of all word texts plus the
\* lengths of all gap texts add up to the number of characters.
C1_EveryCharacterOnce ==
    (Composed /\ ~hideAudioTags) =>
        SumTextLen(words) + SumTextLen(Gaps) = Len(alignment.characters)

C1_Witness ==
    /\ Composed /\ ~hideAudioTags
    /\ Len(words) >= 2 /\ Len(Gaps) >= 2
    /\ "[" \in {alignment.characters[i] : i \in 1..Len(alignment.characters)}

\* C2: segments[i].segmentIndex = i for every position, words[j].wordIndex
\* = j for every word, and the words are exactly the word segments, in order.
C2_DenseIndices ==
    Composed =>
        /\ \A i \in 1..Len(segments) : segments[i].segmentIndex = i - 1
        /\ \A j \in 1..Len(words) : words[j].wordIndex = j - 1
        /\ \A j \in 1..Len(words) :
              /\ words[j].segmentIndex + 1 \in 1..Len(segments)
              /\ segments[words[j].segmentIndex + 1] = words[j]
        /\ SelectSeq(segments, IsWord) = words

C2_Witness ==
    /\ Composed /\ hideAudioTags
    /\ Len(words) >= 2 /\ Len(Gaps) >= 1
    /\ segments[1].kind = "gap"

\* position i lies between an opening "[" and the next "]", both included
InAudioTag(chars, i) ==
    \E j \in 1..i :
        /\ chars[j] = "["
        /\ \A k \in j..(i - 1) : chars[k] # "]"

\* position i is whitespace in the run that immediately precedes a "["
BeforeAudioTag(chars, i) ==
    \E j \in (i + 1)..Len(chars) :
        /\ chars[j] = "["
        /\ \A k \in i..(j - 1) : IsWhitespace(chars[k])

RECURSIVE KeptFrom(_, _)
KeptFrom(chars, i) ==
    IF i > Len(chars) THEN <<>>
    ELSE IF InAudioTag(chars, i) \/ BeforeAudioTag(chars, i)
         THEN KeptFrom(chars, i + 1)
         ELSE <<chars[i]>> \o KeptFrom(chars, i + 1)

\* C7: with hideAudioTags = true the segment texts are the characters
\* outside every "[" ... "]" and outside the whitespace pending before a
\* "["; "[cough] Hi there" gives the words Hi and there after one gap that
\* holds the space following the tag.
C7_AudioTagsHidden ==
    (Composed /\ hideAudioTags) =>
        /\ ConcatTexts(segments) = KeptFrom(alignment.characters, 1)
        /\ alignment = CoughAlignment =>
              /\ [j \in 1..Len(words) |-> words[j].text]
                    = << <<"H", "i">>, <<"t", "h", "e", "r", "e">> >>
              /\ segments[1].kind = "gap" /\ segments[1].text = <<" ">>
              /\ segments[2] = words[1]

C7_Witness ==
    /\ Composed /\ hideAudioTags
    /\ alignment = CoughAlignment
    /\ Len(segments) = 4

\* C8: with a current word, spokenSegments is the segments before it,
\* unspokenSegments the segments after it and the three together are the
\* segments in order; without one, spokenSegments is empty and
\* unspokenSegments is all segments.
C8_DerivedViewPartition ==
    (lastOp # "init") =>
        IF currentWord # <<>>
        THEN /\ spokenSegments = SubSeq(segments, 1, currentSegmentIndex)
             /\ unspokenSegments =
                   SubSeq(segments, currentSegmentIndex + 2, Len(segments))
             /\ spokenSegments \o currentWord \o unspokenSegments = segments
             /\ \A i \in 1..Len(spokenSegments) :
                   spokenSegments[i] # currentWord[1]
             /\ \A i \in 1..Len(unspokenSegments) :
                   unspokenSegments[i] # currentWord[1]
        ELSE /\ spokenSegments = <<>>
             /\ unspokenSegments = segments

C8_Witness ==
    /\ lastOp = "setCurrentWordIndex"
    /\ currentWord # <<>>
    /\ spokenSegments # <<>>
    /\ unspokenSegments # <<>>

----------------------------------------------------------------------------
(* Claims about findWordIndex *)

SortedByStartTime(ws) ==
    \A i \in 1..(Len(ws) - 1) : ws[i].startTime <= ws[i + 1].startTime

NonOverlapping(ws) ==
    \A i \in 1..(Len(ws) - 1) : ws[i].endTime <= ws[i + 1].startTime

Hits(ws, t) == {i \in 1..Len(ws) : ws[i].startTime <= t /\ t < ws[i].endTime}

LocatesTheHit ==
    IF Hits(words, probeTime) # {}
    THEN /\ Cardinality(Hits(words, probeTime)) = 1
         /\ located + 1 \in Hits(words, probeTime)
    ELSE located = -1

\* C3 as stated: for every word list ordered by startTime findWordIndex
\* returns the unique word whose half-open interval holds t, or -1 if none.
\* Read generously: only a time held by exactly one word must be located.
C3_LocateSorted ==
    (lastOp = "findWordIndex" /\ SortedByStartTime(words)) =>
        /\ Cardinality(Hits(words, probeTime)) = 1 =>
               located + 1 \in Hits(words, probeTime)
        /\ Hits(words, probeTime) = {} => located = -1

\* C3 amended: the same for word lists that are ordered by startTime and
\* do not overlap (each endTime <= the next startTime).
C3_LocateSortedNonOverlapping ==
    (lastOp = "findWordIndex" /\ SortedByStartTime(words)
        /\ NonOverlapping(words)) => LocatesTheHit

C3_Witness ==
    /\ lastOp = "findWordIndex"
    /\ SortedByStartTime(words) /\ NonOverlapping(words)
    /\ Len(words) = MaxWords
    /\ located = Len(words) - 1
    /\ words[1].endTime = words[2].startTime

----------------------------------------------------------------------------
(* Claims about the synchronizer *)

ValidIndex(i) == i >= 0 /\ i < Len(words)

\* the operations that run the word-index policy
PolicyOps == {"tick", "handleSeeked", "seekToTime", "seekToWord"}

PublicOps ==
    {"seekToTime", "seekToWord", "play", "pause", "startScrubbing",
     "endScrubbing"}

\* C4: a time update that lands in a silent gap (findWordIndex returns -1)
\* while a word is tracked leaves a valid index, never -1; with the words
\* [0, 1] and [1.5, 2] and index 0 the update from 0.5 to 1.2 keeps index 0.
C4_GapKeepsTrackedWord ==
    [][(/\ lastOp' \in PolicyOps
        /\ ValidIndex(currentWordIndex)
        /\ findWordIndex(words, currentTime') = -1)
       => /\ ValidIndex(currentWordIndex')
          /\ (/\ alignment = SilentGapAlignment
              /\ currentWordIndex = 0
              /\ currentTime = 5 /\ currentTime' = 12)
             => currentWordIndex' = 0]_vars

C4_Witness ==
    /\ lastOp = "tick"
    /\ alignment = SilentGapAlignment
    /\ [j \in 1..Len(words) |-> <<words[j].startTime, words[j].endTime>>]
          = << <<0, 10>>, <<15, 20>> >>
    /\ currentTime = 12
    /\ findWordIndex(words, currentTime) = -1
    /\ currentWordIndex = 0
    /\ ~audio.paused

\* C5: in the freshly initialized state of the words Hi [0, 0.5] and
\* there [0.6, 1.0], seekToWord(1) gives current time 0.6 and index 1.
C5_SeekToWordScenario ==
    [][(/\ alignment = HiThereAlignment
        /\ lastOp = "init"
        /\ SeekToWordIndex(1))
       => /\ [j \in 1..Len(words) |->
                <<words[j].text, words[j].startTime, words[j].endTime>>]
                = << << <<"H", "i">>, 0, 5 >>,
                     << <<"t", "h", "e", "r", "e">>, 6, 10 >> >>
          /\ currentTime' = 6
          /\ currentWordIndex' = 1
          /\ audio'.currentTime = 6]_vars

C5_Witness ==
    /\ alignment = HiThereAlignment
    /\ lastOp = "seekToWord"
    /\ audioRef = "audio"
    /\ currentTime = 6
    /\ currentWordIndex = 1
    /\ audio.currentTime = 6

\* C6: at most one polling callback is scheduled at a time, rafRef names
\* it, and endScrubbing while the media plays leaves exactly one scheduled.
C6_OnePollingLoop ==
    /\ Cardinality(rafScheduled) <= 1
    /\ rafRef = NoRaf => rafScheduled = {}
    /\ rafRef # NoRaf => rafScheduled = {rafRef}
    /\ (lastOp = "endScrubbing" /\ audioRef = "audio" /\ ~audio.paused)
          => Cardinality(rafScheduled) = 1

C6_Witness ==
    /\ lastOp = "endScrubbing"
    /\ audioRef = "audio"
    /\ ~audio.paused
    /\ isPlaying
    /\ Cardinality(rafScheduled) = 1

C10_InvalidWordIsNoOp ==
    [][(\/ \E index \in {-1, Len(words)} : SeekToWordIndex(index)
        \/ SeekToWordObject(<<>>))
       => /\ UNCHANGED <<currentTime, currentWordIndex, audio, pendingEvents>>
          /\ lastCommand' = "none"]_vars

C10_Witness ==
    /\ lastOp = "seekToWord"
    /\ lastCommand = "none"
    /\ audioRef = "audio"
    /\ Len(words) > 0
    /\ audio.currentTime # 0

----------------------------------------------------------------------------
(* Claims about play, pause and isPlaying *)

PlaybackHandlers == {"handlePlay", "handlePause", "handleEnded"}

\* play and pause leave the state of the hook alone and command the media
\* element exactly when it is not yet in the state asked for
PlayPauseOnlyCommand ==
    /\ lastOp' = "play" =>
          /\ UNCHANGED hookVars
          /\ lastCommand' = "play" <=> (audioRef = "audio" /\ audio.paused)
          /\ lastCommand' = "play" => ~audio'.paused
          /\ lastCommand' = "none" => UNCHANGED <<audio, pendingEvents>>
    /\ lastOp' = "pause" =>
          /\ UNCHANGED hookVars
          /\ lastCommand' = "pause" <=> (audioRef = "audio" /\ ~audio.paused)
          /\ lastCommand' = "pause" => audio'.paused
          /\ lastCommand' = "none" => UNCHANGED <<audio, pendingEvents>>

\* C11 as stated: play and pause are idempotent and never write isPlaying,
\* and isPlaying changes only when a play, pause or ended event is handled.
C11_IsPlayingOnlyByEvents ==
    [][/\ PlayPauseOnlyCommand
       /\ isPlaying' # isPlaying => lastOp' \in PlaybackHandlers]_vars

\* C11 amended: play and pause are idempotent and never write isPlaying;
\* isPlaying is written by the play, pause and ended handlers and by the
\* sync that runs when the handlers are registered, each time to what the
\* element reports, and is set to false when a new alignment is supplied.
C11_IsPlayingWriters ==
    [][/\ PlayPauseOnlyCommand
       /\ isPlaying' # isPlaying =>
             lastOp' \in PlaybackHandlers
                 \cup {"setupAudioEventListeners", "alignmentChange"}
       /\ lastOp' \in PlaybackHandlers => isPlaying' = ~audio.paused
       /\ (lastOp' = "setupAudioEventListeners" /\ audioRef = "audio")
             => isPlaying' = ~audio.paused
       /\ lastOp' = "alignmentChange" => ~isPlaying']_vars

C11_Witness ==
    /\ lastOp = "play"
    /\ lastCommand = "play"
    /\ ~audio.paused
    /\ ~isPlaying
    /\ pendingEvents = <<"play">>

----------------------------------------------------------------------------
(* Claims about an alignment switch *)

\* the estimate of the duration: the end of the last character, else the
\* end of the last word, else 0
Estimate(al, ws) ==
    IF Len(al.ends) > 0 THEN al.ends[Len(al.ends)]
    ELSE IF Len(ws) > 0 THEN ws[Len(ws)].endTime
    ELSE 0

ObservedIndex ==
    IF phase = "committed" THEN currentWordIndex
    ELSE closure.currentWordIndex

\* C13 as stated: after a switch every word-index update in flight is
\* computed from the new word list and the reset index, and the index on
\* show is always -1 or a valid index into the word list on show.
C13_SwitchIsolated ==
    [][/\ \/ ObservedIndex' = -1
          \/ ObservedIndex' >= 0 /\ ObservedIndex' < Len(words')
       /\ (phase = "reset" /\ lastOp' \in {"tick", "handleSeeked"}) =>
             currentWordIndex' =
                handleTimeUpdate(Hook, words, audio.currentTime)
                    .currentWordIndex]_vars

----------------------------------------------------------------------------
(* Claims about the duration *)

\* the hook has taken over the duration the media element reports: it
\* shows that duration, which is neither the estimate nor 0
TrueDurationKnown ==
    /\ audioRef = "audio"
    /\ audio.duration # NaN
    /\ duration = audio.duration
    /\ duration # Estimate(alignment, words)
    /\ duration # 0

\* the media element is the same and still mounted after the step
SameTransport ==
    /\ audioRef' = audioRef
    /\ audio'.duration = audio.duration

\* C14: once the duration of the media is known to the hook it stays: no
\* tick, metadata event, seek or alignment switch on the same media element
\* brings the estimate or 0 back.
C14_TrueDurationStays ==
    [][(TrueDurationKnown /\ SameTransport) => duration' = duration]_vars

\* C15: while a media element is attached and its duration is unknown, the
\* duration of the hook is the estimate: the end of the last character,
\* else the end of the last word, else 0.
C15_EstimateWhileUnknown ==
    (audioRef = "audio" /\ audio.duration = NaN) =>
        duration = Estimate(alignment, words)

----------------------------------------------------------------------------
(* Claims about the polling loop and scrubbing *)

Pending(event) ==
    \E i \in 1..Len(pendingEvents) : pendingEvents[i] = event

\* the media element plays, or has stopped and its pause or ended event is
\* still to be handled
TransportReportsPlaying ==
    ~audio.paused \/ Pending("pause") \/ Pending("ended")

\* C16: a polling callback is scheduled only while isScrubbing is false and
\* the media element, mounted with the handlers registered, plays;
\* startScrubbing stops the loop and leaves isPlaying alone; endScrubbing
\* starts it only if the element plays.
C16_LoopOnlyWhilePlayingNotScrubbing ==
    [][/\ (/\ rafScheduled' # {}
           /\ audioRef' = "audio"
           /\ listeners'.audio > 0) =>
             /\ ~isScrubbing'
             /\ TransportReportsPlaying'
       /\ lastOp' = "startScrubbing" =>
             /\ rafScheduled' = {}
             /\ isPlaying' = isPlaying
       /\ (lastOp' = "endScrubbing" /\ rafScheduled' # rafScheduled) =>
             (audioRef = "audio" /\ ~audio.paused)]_vars

----------------------------------------------------------------------------
(* Claims about seekToTime *)

\* C17: seekToTime(t) with the media element mounted sets currentTime to t
\* and the word index to what the policy gives for t at once, with the
\* seeked event of the element still to come, and moves the element to t.
C17_SeekIsOptimistic ==
    [][\A t \in MediaTimes(alignment) :
          (SeekToTime(t) /\ audioRef = "audio") =>
             /\ currentTime' = t
             /\ currentWordIndex' =
                   handleTimeUpdate(Hook, words, t).currentWordIndex
             /\ audio'.currentTime = t
             /\ lastCommand' = "seek"
             /\ pendingEvents' = Append(pendingEvents, "seeked")
             /\ UNCHANGED <<isPlaying, isScrubbing, duration, rafRef,
                            rafScheduled>>]_vars

C17_Witness ==
    /\ lastOp = "seekToTime"
    /\ alignment = SilentGapAlignment
    /\ audioRef = "audio"
    /\ currentTime = 15
    /\ audio.currentTime = 15
    /\ currentWordIndex = 1
    /\ pendingEvents = <<"seeked">>
    /\ audio.paused

----------------------------------------------------------------------------
(* Claims about findWordIndex on any word list *)

\* C18: on every word list, also with zero-length, overlapping or
\* out-of-order intervals, findWordIndex ends after inspecting at most as
\* many words as there are; its result is -1 or the index of a word whose
\* half-open interval holds the time, and it is -1 whenever no word holds
\* the time, a zero-length word never holding any.
C18_LocateAnyList ==
    lastOp = "findWordIndex" =>
        /\ BinarySearchProbes(words, probeTime, 0, Len(words) - 1)
              <= Len(words)
        /\ located \in -1..(Len(words) - 1)
        /\ located # -1 => located + 1 \in Hits(words, probeTime)
        /\ Hits(words, probeTime) = {} => located = -1
        /\ \A i \in Hits(words, probeTime) :
              words[i].startTime < words[i].endTime

C18_Witness ==
    /\ lastOp = "findWordIndex"
    /\ Len(words) = MaxWords
    /\ ~SortedByStartTime(words)
    /\ ~NonOverlapping(words)
    /\ words[2].startTime = probeTime /\ words[2].endTime = probeTime
    /\ Hits(words, probeTime) = {}
    /\ located = -1

----------------------------------------------------------------------------
(* Claims about the branches of the word-index policy *)

\* the step ran the policy for the time it left in currentTime
PolicyRan ==
    \/ lastOp' \in {"tick", "handleSeeked"}
    \/ lastOp' \in {"seekToTime", "seekToWord"} /\ lastCommand' = "seek"

\* the indices j >= i with every word after i up to j started by time t
StartedFrom(ws, i, t) ==
    {j \in i..(Len(ws) - 1) :
        \A k \in (i + 1)..j : ws[k + 1].startTime <= t}

\* C19: a time update at or past the end of the tracked word, with a next
\* word, moves the index to the largest j >= it such that every word after
\* the tracked one up to j has started; the index does not decrease, and j
\* is taken whether or not the time lies within word j.
C19_ForwardScan ==
    [][(/\ PolicyRan
        /\ ValidIndex(currentWordIndex)
        /\ currentTime' >= words[currentWordIndex + 1].endTime
        /\ currentWordIndex + 1 < Len(words))
       => /\ currentWordIndex' =
                Max(StartedFrom(words, currentWordIndex, currentTime'))
          /\ currentWordIndex' >= currentWordIndex]_vars

C19_Witness ==
    /\ lastOp = "tick"
    /\ alignment = ZeroLengthAlignment
    /\ Len(words) = 3
    /\ currentTime = 2
    /\ currentWordIndex = 2
    /\ words[2].startTime = 2 /\ words[2].endTime = 2
    /\ ~audio.paused

\* C20: a time update before the start of the tracked word sets the index
\* to findWordIndex(words, time) if that is not -1 and leaves it as it was
\* otherwise.
C20_BackwardRelocate ==
    [][(/\ PolicyRan
        /\ ValidIndex(currentWordIndex)
        /\ currentTime' < words[currentWordIndex + 1].startTime)
       => currentWordIndex' =
             IF findWordIndex(words, currentTime') # -1
             THEN findWordIndex(words, currentTime')
             ELSE currentWordIndex]_vars

C20_Witness ==
    /\ lastOp = "seekToTime"
    /\ alignment = SilentGapAlignment
    /\ currentTime = 12
    /\ findWordIndex(words, currentTime) = -1
    /\ currentWordIndex = 1
    /\ words[2].startTime = 15

----------------------------------------------------------------------------
(* Claims about the handlers of the media events *)

\* C21: every handler of a media event brings the state it is about up to
\* the element, and the handlers of timeupdate and seeked run the word-index
\* policy for the element's time, whether or not the polling loop runs.
C21_EventsRunThePolicy ==
    [][/\ lastOp' \in {"handlePlay", "handlePause", "handleEnded"} =>
             isPlaying' = ~audio.paused
       /\ lastOp' \in {"handlePause", "handleEnded",
                        "handleTimeUpdateEvent", "handleSeeked"} =>
             currentTime' = audio.currentTime
       /\ lastOp' = "handleDuration" => duration' = audio.duration
       /\ lastOp' \in {"handleTimeUpdateEvent", "handleSeeked"} =>
             currentWordIndex' =
                handleTimeUpdate(Hook, words, audio.currentTime)
                    .currentWordIndex]_vars

----------------------------------------------------------------------------
(* Claims about the words of composeSegments *)

\* position i holds a character of a word: not whitespace and, with
\* hideAudioTags, not within an audio tag
WordChar(chars, hide, i) ==
    /\ ~IsWhitespace(chars[i])
    /\ ~(hide /\ InAudioTag(chars, i))

\* the positions at which a word begins
WordStarts(chars, hide) ==
    {i \in 1..Len(chars) :
        /\ WordChar(chars, hide, i)
        /\ i = 1 \/ ~WordChar(chars, hide, i - 1)}

\* the position at which the k-th word begins, and the one at which the
\* word beginning at i ends
NthWordStart(chars, hide, k) ==
    CHOOSE i \in WordStarts(chars, hide) :
        Cardinality({j \in WordStarts(chars, hide) : j < i}) = k - 1

WordEndFrom(chars, hide, i) ==
    CHOOSE j \in i..Len(chars) :
        /\ \A k \in i..j : WordChar(chars, hide, k)
        /\ j = Len(chars) \/ ~WordChar(chars, hide, j + 1)

HasAllTimes(al) ==
    /\ Len(al.starts) = Len(al.characters)
    /\ Len(al.ends) = Len(al.characters)

\* C22: each word has the start time of the first character of its text
\* and the end time of the last one, whatever hideAudioTags is; the times of
\* whitespace and of hidden tag characters are in no word.
C22_WordTimesFromItsCharacters ==
    (Composed /\ HasAllTimes(alignment)) =>
        LET chars == alignment.characters
        IN /\ Len(words) = Cardinality(WordStarts(chars, hideAudioTags))
           /\ \A k \in 1..Len(words) :
                 LET first == NthWordStart(chars, hideAudioTags, k)
                     last == WordEndFrom(chars, hideAudioTags, first)
                 IN /\ words[k].text = SubSeq(chars, first, last)
                    /\ words[k].startTime = alignment.starts[first]
                    /\ words[k].endTime = alignment.ends[last]

C22_Witness ==
    /\ Composed /\ hideAudioTags
    /\ alignment = CoughAlignment
    /\ words[1].startTime = 8 /\ words[1].endTime = 10
    /\ words[2].startTime = 11 /\ words[2].endTime = 16

\* spec.md, section 3: the three sequences are equally long, the start
\* times do not decrease and no character ends before it starts
DataModelInvariant(al) ==
    /\ HasAllTimes(al)
    /\ \A i \in 1..(Len(al.starts) - 1) : al.starts[i] <= al.starts[i + 1]
    /\ \A i \in 1..Len(al.starts) : al.starts[i] <= al.ends[i]

\* C23: on an alignment that satisfies the data-model invariant the words
\* come out with non-decreasing startTime.
C23_WordsOrderedByStartTime ==
    (Composed /\ DataModelInvariant(alignment)) => SortedByStartTime(words)

C23_Witness ==
    /\ Composed /\ hideAudioTags
    /\ DataModelInvariant(alignment)
    /\ alignment.characters = <<"a", " ", "a">>
    /\ alignment.starts = <<0, 2, 2>>
    /\ Len(words) = 2
    /\ words[1].startTime = 0 /\ words[2].startTime = 2

----------------------------------------------------------------------------
(* C24 *)

OnlyWhitespace(text) == \A k \in 1..Len(text) : IsWhitespace(text[k])

NoWhitespace(text) == \A k \in 1..Len(text) : ~IsWhitespace(text[k])

\* C24: no word text holds a whitespace character, every gap text is made
\* of whitespace only, no two gaps are adjacent, and with hideAudioTags =
\* false words and gaps strictly alternate and their texts, joined in
\* order, give back the characters (so a run of whitespace is one gap).
C24_WhitespaceRunsAreOneGap ==
    Composed =>
        /\ \A i \in 1..Len(segments) :
              IF segments[i].kind = "gap"
              THEN segments[i].text # <<>> /\ OnlyWhitespace(segments[i].text)
              ELSE segments[i].text # <<>> /\ NoWhitespace(segments[i].text)
        /\ \A i \in 1..(Len(segments) - 1) :
              ~(segments[i].kind = "gap" /\ segments[i + 1].kind = "gap")
        /\ ~hideAudioTags =>
              /\ \A i \in 1..(Len(segments) - 1) :
                    segments[i].kind # segments[i + 1].kind
              /\ ConcatTexts(segments) = alignment.characters

\* two whitespace characters in a row between two words came out as one gap
C24_Witness ==
    /\ Composed /\ ~hideAudioTags
    /\ alignment.characters = <<"a", " ", " ", "a">>
    /\ Len(segments) = 3
    /\ segments[2].kind = "gap" /\ segments[2].text = <<" ", " ">>

----------------------------------------------------------------------------
(* C25 *)

\* the values the step passes to onDurationChange
NotifiedInStep == onDurationChangeCalls(lastOp', Hook, audioRef, audio)

\* C25: onDurationChange is delivered once for a resolution of the true
\* duration: a step notifies only when it brings the element's duration
\* into the duration state, and a metadata signal that leaves the duration
\* state as it is notifies nobody.
C25_NotifiedOncePerResolution ==
    [][NotifiedInStep # <<>> =>
          /\ audio.duration # NaN
          /\ duration # audio.duration
          /\ duration' = audio.duration]_vars

----------------------------------------------------------------------------
(* C26 *)

HandlerOps ==
    {"handlePlay", "handlePause", "handleEnded", "handleTimeUpdateEvent",
     "handleSeeked", "handleDuration"}

\* C26: at most one handler set is registered; a re-registration leaves
\* none of the earlier handlers and no frame callback but the one it may
\* have requested itself; after the unmount no handler is registered, no
\* frame callback is scheduled, and neither a handler nor a frame callback
\* runs.
C26_SubscriptionsScoped ==
    [][/\ listeners'.audio + listeners'.replaced <= 1
       /\ lastOp' = "setupAudioEventListeners" =>
             /\ listeners'.replaced = 0
             /\ rafScheduled' \subseteq {rafRef'}
             /\ rafScheduled' # {} => (audioRef = "audio" /\ ~audio.paused)
       /\ phase' = "unmounted" =>
             /\ listeners' = NoListeners
             /\ rafScheduled' = {}
       /\ phase = "unmounted" => lastOp' \notin HandlerOps \cup {"tick"}]_vars

----------------------------------------------------------------------------
(* C27 *)

\* the entries of the status list are the segments, each once and in order
ListsEverySegment ==
    /\ Len(segmentsWithStatus) = Len(segments)
    /\ \A i \in 1..Len(segments) :
          /\ segmentsWithStatus[i].segment = segments[i]
          /\ segmentsWithStatus[i].status \in {"spoken", "current", "unspoken"}

\* the entry of the current word is the one tagged current, the entries
\* before it are tagged spoken and the entries after it unspoken
SplitAtCurrentWord ==
    \A i \in 1..Len(segmentsWithStatus) :
        segmentsWithStatus[i].status =
            IF i < currentSegmentIndex + 1 THEN "spoken"
            ELSE IF i = currentSegmentIndex + 1 THEN "current"
            ELSE "unspoken"

\* the position has reached the known duration
AtTheEnd == duration # 0 /\ currentTime >= duration

\* C27 as stated: the status list holds every segment once, in order, and
\* whenever there is a current word it splits the list into spoken,
\* current and unspoken, for every currentTime and duration.
C27_StatusSplitsAtCurrentWord ==
    /\ ListsEverySegment
    /\ currentWord # <<>> => SplitAtCurrentWord

\* C27, amended: the status list holds every segment once, in order; once
\* the position has reached the duration every entry is tagged spoken,
\* current word included; before that a current word splits the list into
\* spoken, current and unspoken.
C27_StatusSplitsUnlessAtTheEnd ==
    /\ ListsEverySegment
    /\ IF AtTheEnd
       THEN \A i \in 1..Len(segmentsWithStatus) :
               segmentsWithStatus[i].status = "spoken"
       ELSE currentWord # <<>> => SplitAtCurrentWord

\* the media has played to its end with a current word that has segments
\* before it
C27_Witness ==
    /\ AtTheEnd
    /\ currentWord # <<>>
    /\ currentSegmentIndex > 0
    /\ lastOp = "handleEnded"

----------------------------------------------------------------------------
(* C28 *)

\* the handlers are registered on the mounted media element and no
\* notification of a change of its paused flag is still to be handled
PlaybackSettled ==
    /\ Mounted
    /\ audioRef = "audio"
    /\ listeners.audio > 0
    /\ ~Pending("play") /\ ~Pending("pause") /\ ~Pending("ended")

\* C28: with the handlers registered and every play, pause and ended
\* notification handled, isPlaying is true exactly when the media element
\* is not paused, also after an alignment switch during playback.
C28_IsPlayingAgreesWithTransport ==
    PlaybackSettled => (isPlaying <=> ~audio.paused)

----------------------------------------------------------------------------
(* C29 *)

PositiveLength(ws) == \A i \in 1..Len(ws) : ws[i].startTime < ws[i].endTime

\* C29: on a non-empty word list that is sorted by startTime, with words
\* of positive length that do not overlap, a time update at a time that
\* lies within a word leaves currentWordIndex at that word, which is the
\* one findWordIndex gives, whatever index was tracked before.
C29_ExactHitWins ==
    [][(/\ lastOp' = "handleTimeUpdate"
        /\ Len(words) > 0
        /\ SortedByStartTime(words)
        /\ NonOverlapping(words)
        /\ PositiveLength(words)
        /\ Hits(words, probeTime') # {})
       => /\ currentWordIndex' + 1 \in Hits(words, probeTime')
          /\ currentWordIndex' = findWordIndex(words, probeTime')]_vars

\* three words one after the other, the time within the third
C29_Witness ==
    /\ lastOp = "handleTimeUpdate"
    /\ Len(words) = 3
    /\ SortedByStartTime(words) /\ NonOverlapping(words)
    /\ PositiveLength(words)
    /\ Hits(words, probeTime) = {3}
    /\ currentWordIndex = 2

----------------------------------------------------------------------------
(* C30 *)

\* C30: with the media element mounted, seekToWord(i) for a valid index i
\* leaves currentTime at the startTime of word i and currentWordIndex at
\* i, whatever index was tracked before and whatever words the composer
\* gave, words of zero length and words that share a start time included.
C30_SeekToWordSelectsIt ==
    [][\A i \in 0..(Len(words) - 1) :
          (SeekToWordIndex(i) /\ audioRef = "audio") =>
             /\ currentTime' = words[i + 1].startTime
             /\ currentWordIndex' = i]_vars

====
